---- MODULE Spec2Model ----
(***************************************************************************)
(* Model of the NanoKVM-USB host side: the CmdPacket framing codec         *)
(* (src/nanokvm-usb.py, class CmdPacket), the InfoPacket decoder and the   *)
(* NanoKVM controller that writes frames to a serial port and reads the    *)
(* GET_INFO response.                                                      *)
(*                                                                         *)
(* Python lists are 0-indexed; TLA+ sequences are 1-indexed.  At(l, i) is  *)
(* the Python expression l[i] and Slice(l, a, b) is l[a:b].                *)
(***************************************************************************)
EXTENDS Integers, Sequences, FiniteSets, TLC

\* ------------------------------------------------------------------ bounds
\* longest payload of an outbound packet built by the model
MaxLen == 2
\* longest run of garbage bytes put in front of a frame
MaxGarbage == 2
\* longest raw byte sequence handed to an inbound construction
MaxRaw == 6

\* ------------------------------------------------------- program constants
HEAD1 == 87
HEAD2 == 171
GET_INFO == 1

\* ------------------------------------------------------------ input values
\* sample byte values: zero, small values, both header bytes, the top byte
AddrVals == {0, 87}
CmdVals == {GET_INFO, 171}
DataVals == {0, 3, 87, 171, 255}
GarbVals == {0, 87, 171}
RawVals == {0, 1, 2, 87, 171}

SeqsUpTo(S, n) == UNION {[1..k -> S] : k \in 0..n}

Payloads == SeqsUpTo(DataVals, MaxLen)

HasHead(s) == \E i \in 1..(Len(s) - 1) : s[i] = HEAD1 /\ s[i + 1] = HEAD2

Garbage == {g \in SeqsUpTo(GarbVals, MaxGarbage) : ~HasHead(g)}

\* bytes in front of a frame that hold the header pair
NoisyGarbage == {g \in SeqsUpTo(GarbVals, MaxGarbage + 1) : HasHead(g)}

RawInputs == SeqsUpTo(RawVals, MaxRaw)

\* ---------------------------------------------------------- list helpers
At(l, i) == l[i + 1]

InRange(l, i) == 0 <= i /\ i < Len(l)

Min2(a, b) == IF a < b THEN a ELSE b

\* l[a:b] for 0 <= a: Python clamps the end of a slice to len(l)
Slice(l, a, b) ==
    LET e == Min2(b, Len(l))
    IN  IF e <= a THEN <<>> ELSE [i \in 1..(e - a) |-> l[a + i]]

RECURSIVE SeqSum(_)
SeqSum(s) == IF s = <<>> THEN 0 ELSE Head(s) + SeqSum(Tail(s))

SetMin(S) == CHOOSE x \in S : \A y \in S : x <= y

SetMax(S) == CHOOSE x \in S : \A y \in S : x >= y

\* ------------------------------------------------------------- CmdPacket
\* the fields __init__ sets before it saves or decodes
ZeroPkt == [ADDR |-> 0, CMD |-> 0, LEN |-> 0, DATA |-> <<>>, SUM |-> 0]

\* mutant of Save: the checksum is not masked to one byte
SaveNoMask(addr, cmd, data) ==
    [ADDR |-> addr, CMD |-> cmd, LEN |-> Len(data), DATA |-> data,
     SUM |-> HEAD1 + HEAD2 + addr + cmd + Len(data) + SeqSum(data)]

\* CmdPacket._save
Save(addr, cmd, data) ==
    LET total == HEAD1 + HEAD2 + addr + cmd + Len(data) + SeqSum(data)
    IN  [ADDR |-> addr, CMD |-> cmd, LEN |-> Len(data), DATA |-> data,
         SUM |-> total % 256]

\* mutant of Encode: the length byte is written after the payload
EncodeLenLast(self) ==
    <<HEAD1, HEAD2, self.ADDR, self.CMD>> \o self.DATA \o <<self.LEN, self.SUM>>

\* CmdPacket.encode
Encode(self) ==
    <<HEAD1, HEAD2, self.ADDR, self.CMD, self.LEN>> \o self.DATA \o <<self.SUM>>

\* mutant of FindHead: the last header pair is returned instead of the first
FindHeadLast(lst) ==
    LET hits == {i \in 0..(Len(lst) - 2) :
                    At(lst, i) = HEAD1 /\ At(lst, i + 1) = HEAD2}
    IN  IF hits = {} THEN -1 ELSE SetMax(hits)

\* mutant of FindHead: the scan stops at the first HEAD1 byte and gives up when
\* HEAD2 does not follow it
FindHeadFirstByte(lst) ==
    LET ones == {i \in 0..(Len(lst) - 2) : At(lst, i) = HEAD1}
    IN  IF ones = {} THEN -1
        ELSE IF At(lst, SetMin(ones) + 1) = HEAD2 THEN SetMin(ones) ELSE -1

\* CmdPacket._find_head: the first i in range(len(lst) - 1) at which the
\* header pair starts, -1 when there is none
FindHead(lst) ==
    LET hits == {i \in 0..(Len(lst) - 2) :
                    At(lst, i) = HEAD1 /\ At(lst, i + 1) = HEAD2}
    IN  IF hits = {} THEN -1 ELSE SetMin(hits)

\* outcome of a decode call that returns -1 and assigns nothing
Fail(self, raw, why) ==
    [ret |-> -1, out |-> why, raised |-> FALSE, pkt |-> self, raw |-> raw]

\* outcome of a decode call that ends in an uncaught IndexError
Raise(self, raw) ==
    [ret |-> -1, out |-> "IndexError", raised |-> TRUE, pkt |-> self, raw |-> raw]

\* mutant of Decode: the checksum comparison is left out
DecodeNoSum(self, raw) ==
    LET hi == FindHead(raw)
    IN  IF hi < 0 THEN Fail(self, raw, "cannot find HEAD")
        ELSE IF Len(raw) - hi < 6 THEN Fail(self, raw, "len error1")
        ELSE IF ~InRange(raw, hi + 2) \/ ~InRange(raw, hi + 3) \/ ~InRange(raw, hi + 4)
             THEN Raise(self, raw)
        ELSE
            LET addr == At(raw, hi + 2)
                cmd == At(raw, hi + 3)
                data_len == At(raw, hi + 4)
            IN  IF Len(raw) < hi + 5 + data_len + 1 THEN Fail(self, raw, "len error2")
                ELSE IF ~InRange(raw, hi + 5 + data_len) THEN Fail(self, raw, "len error3")
                ELSE
                    LET summ == At(raw, hi + 5 + data_len)
                        s == SeqSum(Slice(raw, hi, hi + 5 + data_len))
                    IN  IF FALSE THEN Fail(self, raw, "checksum")
                        ELSE [ret |-> 0, out |-> "ok", raised |-> FALSE,
                              pkt |-> [ADDR |-> addr, CMD |-> cmd, LEN |-> data_len,
                         DATA |-> Slice(raw, hi + 5, hi + 5 + data_len), SUM |-> summ],
                              raw |-> raw]

\* mutant of Decode: the minimum-length check counts the header, address and
\* command only
DecodeShortMin(self, raw) ==
    LET hi == FindHead(raw)
    IN  IF hi < 0 THEN Fail(self, raw, "cannot find HEAD")
        ELSE IF Len(raw) - hi < 4 THEN Fail(self, raw, "len error1")
        ELSE IF ~InRange(raw, hi + 2) \/ ~InRange(raw, hi + 3) \/ ~InRange(raw, hi + 4)
             THEN Raise(self, raw)
        ELSE
            LET addr == At(raw, hi + 2)
                cmd == At(raw, hi + 3)
                data_len == At(raw, hi + 4)
            IN  IF Len(raw) < hi + 5 + data_len + 1 THEN Fail(self, raw, "len error2")
                ELSE IF ~InRange(raw, hi + 5 + data_len) THEN Fail(self, raw, "len error3")
                ELSE
                    LET summ == At(raw, hi + 5 + data_len)
                        s == SeqSum(Slice(raw, hi, hi + 5 + data_len))
                    IN  IF s % 256 # summ THEN Fail(self, raw, "checksum")
                        ELSE [ret |-> 0, out |-> "ok", raised |-> FALSE,
                              pkt |-> [ADDR |-> addr, CMD |-> cmd, LEN |-> data_len,
                         DATA |-> Slice(raw, hi + 5, hi + 5 + data_len), SUM |-> summ],
                              raw |-> raw]

\* mutant of Decode: ADDR, CMD and LEN are assigned before the checksum is
\* verified
DecodeEarlyAssign(self, raw) ==
    LET hi == FindHead(raw)
    IN  IF hi < 0 THEN Fail(self, raw, "cannot find HEAD")
        ELSE IF Len(raw) - hi < 6 THEN Fail(self, raw, "len error1")
        ELSE IF ~InRange(raw, hi + 2) \/ ~InRange(raw, hi + 3) \/ ~InRange(raw, hi + 4)
             THEN Raise(self, raw)
        ELSE
            LET addr == At(raw, hi + 2)
                cmd == At(raw, hi + 3)
                data_len == At(raw, hi + 4)
            IN  IF Len(raw) < hi + 5 + data_len + 1 THEN Fail(self, raw, "len error2")
                ELSE IF ~InRange(raw, hi + 5 + data_len) THEN Fail(self, raw, "len error3")
                ELSE
                    LET summ == At(raw, hi + 5 + data_len)
                        s == SeqSum(Slice(raw, hi, hi + 5 + data_len))
                    IN  IF s % 256 # summ THEN Fail([self EXCEPT !.ADDR = addr, !.CMD = cmd, !.LEN = data_len], raw, "checksum")
                        ELSE [ret |-> 0, out |-> "ok", raised |-> FALSE,
                              pkt |-> [ADDR |-> addr, CMD |-> cmd, LEN |-> data_len,
                         DATA |-> Slice(raw, hi + 5, hi + 5 + data_len), SUM |-> summ],
                              raw |-> raw]

\* CmdPacket.decode.  The result holds the return value, the branch taken
\* (the message printed, "checksum" for the silent mismatch return, "ok"),
\* whether an IndexError escaped, the object's fields after the call and the
\* list passed in as it is after the call.  raw[hi + 2], raw[hi + 3] and
\* raw[hi + 4] are read outside the try block; raw[hi + 5 + data_len] inside.
Decode(self, raw) ==
    LET hi == FindHead(raw)
    IN  IF hi < 0 THEN Fail(self, raw, "cannot find HEAD")
        ELSE IF Len(raw) - hi < 6 THEN Fail(self, raw, "len error1")
        ELSE IF ~InRange(raw, hi + 2) \/ ~InRange(raw, hi + 3) \/ ~InRange(raw, hi + 4)
             THEN Raise(self, raw)
        ELSE
            LET addr == At(raw, hi + 2)
                cmd == At(raw, hi + 3)
                data_len == At(raw, hi + 4)
            IN  IF Len(raw) < hi + 5 + data_len + 1 THEN Fail(self, raw, "len error2")
                ELSE IF ~InRange(raw, hi + 5 + data_len) THEN Fail(self, raw, "len error3")
                ELSE
                    LET summ == At(raw, hi + 5 + data_len)
                        s == SeqSum(Slice(raw, hi, hi + 5 + data_len))
                    IN  IF s % 256 # summ THEN Fail(self, raw, "checksum")
                        ELSE [ret |-> 0, out |-> "ok", raised |-> FALSE,
                              pkt |-> [ADDR |-> addr, CMD |-> cmd, LEN |-> data_len,
                         DATA |-> Slice(raw, hi + 5, hi + 5 + data_len), SUM |-> summ],
                              raw |-> raw]

\* CmdPacket.__init__: the fields are zeroed, then a negative addr or cmd
\* decodes data as a raw stream (the return value is dropped) and anything
\* else saves the three arguments
Construct(addr, cmd, data) ==
    IF addr < 0 \/ cmd < 0 THEN Decode(ZeroPkt, data) ELSE
        [ret |-> 0, out |-> "saved", raised |-> FALSE,
         pkt |-> Save(addr, cmd, data), raw |-> data]

\* one bit of a byte inverted (b ^ (1 << k))
FlipBitOf(b, k) == IF (b \div (2 ^ k)) % 2 = 1 THEN b - 2 ^ k ELSE b + 2 ^ k

\* ------------------------------------------------ state of the codec model
VARIABLES
    pkt,     \* the fields of the CmdPacket object at hand
    origin,  \* "outbound" or "inbound": how that object was constructed
    arg,     \* the (addr, cmd, data) the frame in buf was built from
    buf,     \* the byte list at hand: an encoded frame, a damaged one, raw input
    tag,     \* what buf is: "none", "frame", "flip", "prefix", "garbage", "raw",
             \* "noisy", "concat"
    mod,     \* what was done to the frame: bit flipped, cut length, bytes put in
             \* front, frame put behind
    res,     \* outcome of the last construction or decode call on pkt
    last     \* the operation of the last step: "new", "encode", "line", "decode"

\* ------------------------------------------- state of the controller model
VARIABLES
    addr,        \* NanoKVM.addr
    write_lock,  \* NanoKVM._write_lock: the thread holding it, 0 when free
    tpc,         \* per thread: "idle", "gi_read" (get_info wrote, has not read), "done"
    top,         \* per thread: the operation it is in, "none" when idle
    tres,        \* per thread: how its call ended: "none", "ok" or the exception raised
    port,        \* the writes and reads made on serial_port, in order
    wire,        \* the bytes of the last serial_port.write
    rd,          \* the get_info read of the call about to return: thread, bytes, InfoPacket
    ncalls,      \* calls started so far
    call,        \* the last call started: thread, operation, arguments
    nw,          \* per thread: serial_port.write calls made by its call so far
    nr           \* per thread: serial_port.read calls made by its call so far

\* ----------------------------------------- state of the device-info parser
VARIABLES
    inf          \* the last InfoPacket(data) made: its argument and the object

\* ------------------------------------------------ state of the key window
VARIABLES
    held,        \* the keys the user holds down
    ev,          \* the last key event delivered to KeyCaptureWindow
    evw          \* the frames the handler of that event wrote

codecVars == <<pkt, origin, arg, buf, tag, mod, res, last>>

ctlVars == <<addr, write_lock, tpc, top, tres, port, wire, rd, ncalls, call, nw, nr>>

infVars == <<inf>>

guiVars == <<held, ev, evw>>

vars == <<codecVars, ctlVars, infVars, guiVars>>

NoArg == [addr |-> 0, cmd |-> 0, data |-> <<>>]

NoMod == [pos |-> -1, bit |-> -1, cut |-> -1, pre |-> <<>>, post |-> <<>>]

\* CmdPacket() with the default arguments
CodecInit ==
    /\ pkt = Construct(0, 0, <<>>).pkt
    /\ origin = "outbound"
    /\ arg = NoArg
    /\ buf = <<>>
    /\ tag = "none"
    /\ mod = NoMod
    /\ res = [ret |-> 0, out |-> "saved", raised |-> FALSE]
    /\ last = "new"

\* no call has been made on pkt with the bytes now in buf
NoCall == [ret |-> 0, out |-> "none", raised |-> FALSE]

Outcome(r) == [ret |-> r.ret, out |-> r.out, raised |-> r.raised]

\* CmdPacket(addr, cmd, data) with addr, cmd >= 0.  The new object does not
\* depend on the one it replaces, so it is built from the states without a
\* buffer only.
NewOutbound ==
    /\ tag = "none"
    /\ \E a \in AddrVals, c \in CmdVals, d \in Payloads :
        LET r == Construct(a, c, d)
        IN  /\ pkt' = r.pkt
            /\ arg' = [addr |-> a, cmd |-> c, data |-> d]
            /\ res' = Outcome(r)
    /\ origin' = "outbound"
    /\ buf' = <<>>
    /\ tag' = "none"
    /\ mod' = NoMod
    /\ last' = "new"
    /\ UNCHANGED <<ctlVars, infVars, guiVars>>

\* pkt.encode() on the outbound object
EncodeFrame ==
    /\ tag = "none"
    /\ origin = "outbound"
    /\ buf' = Encode(pkt)
    /\ tag' = "frame"
    /\ UNCHANGED <<pkt, origin, arg, mod, res>>
    /\ last' = "encode"
    /\ UNCHANGED <<ctlVars, infVars, guiVars>>

\* the line inverts bit k of byte i of the frame
FlipBit ==
    /\ tag = "frame"
    /\ \E i \in 0..(Len(buf) - 1), k \in 0..7 :
        /\ buf' = [buf EXCEPT ![i + 1] = FlipBitOf(@, k)]
        /\ mod' = [NoMod EXCEPT !.pos = i, !.bit = k]
    /\ tag' = "flip"
    /\ res' = NoCall
    /\ UNCHANGED <<pkt, origin, arg>>
    /\ last' = "line"
    /\ UNCHANGED <<ctlVars, infVars, guiVars>>

\* only the first n bytes of the frame arrive
Truncate ==
    /\ tag = "frame"
    /\ \E n \in 0..(Len(buf) - 1) :
        /\ buf' = Slice(buf, 0, n)
        /\ mod' = [NoMod EXCEPT !.cut = n]
    /\ tag' = "prefix"
    /\ res' = NoCall
    /\ UNCHANGED <<pkt, origin, arg>>
    /\ last' = "line"
    /\ UNCHANGED <<ctlVars, infVars, guiVars>>

\* bytes without a header pair arrive in front of the frame
Prepend ==
    /\ tag = "frame"
    /\ \E g \in Garbage :
        /\ buf' = g \o buf
        /\ mod' = [NoMod EXCEPT !.pre = g]
    /\ tag' = "garbage"
    /\ res' = NoCall
    /\ UNCHANGED <<pkt, origin, arg>>
    /\ last' = "line"
    /\ UNCHANGED <<ctlVars, infVars, guiVars>>

\* the frames that follow a frame on the line: those of the payloads of at
\* most one byte
SecondFrames ==
    {Encode(Save(a, c, d)) : a \in AddrVals, c \in CmdVals,
                             d \in {x \in Payloads : Len(x) <= 1}}

\* bytes that hold a header pair arrive in front of the frame
PrependNoisy ==
    /\ tag = "frame"
    /\ \E g \in NoisyGarbage :
        /\ buf' = g \o buf
        /\ mod' = [NoMod EXCEPT !.pre = g]
    /\ tag' = "noisy"
    /\ res' = NoCall
    /\ UNCHANGED <<pkt, origin, arg>>
    /\ last' = "line"
    /\ UNCHANGED <<ctlVars, infVars, guiVars>>

\* a second frame arrives right behind the frame
Concat ==
    /\ tag = "frame"
    /\ \E f \in SecondFrames :
        /\ buf' = buf \o f
        /\ mod' = [NoMod EXCEPT !.post = f]
    /\ tag' = "concat"
    /\ res' = NoCall
    /\ UNCHANGED <<pkt, origin, arg>>
    /\ last' = "line"
    /\ UNCHANGED <<ctlVars, infVars, guiVars>>

\* the peer sends the frame again while the caller keeps its object
Resend ==
    /\ tag \in {"flip", "prefix", "garbage"}
    /\ res.out \notin {"saved", "none"}
    /\ buf' = Encode(Save(arg.addr, arg.cmd, arg.data))
    /\ tag' = "frame"
    /\ mod' = NoMod
    /\ res' = NoCall
    /\ UNCHANGED <<pkt, origin, arg>>
    /\ last' = "line"
    /\ UNCHANGED <<ctlVars, infVars, guiVars>>

\* pkt.decode(buf) on the object at hand
DecodeCall ==
    /\ tag # "none"
    /\ LET r == Decode(pkt, buf)
       IN  /\ pkt' = r.pkt
           /\ buf' = r.raw
           /\ res' = Outcome(r)
    /\ UNCHANGED <<origin, arg, tag, mod>>
    /\ last' = "decode"
    /\ UNCHANGED <<ctlVars, infVars, guiVars>>

\* CmdPacket(-1, -1, buf): a fresh inbound object decodes the bytes at hand
NewInbound ==
    /\ tag # "none"
    /\ LET r == Construct(-1, -1, buf)
       IN  /\ pkt' = r.pkt
           /\ buf' = r.raw
           /\ res' = Outcome(r)
    /\ origin' = "inbound"
    /\ UNCHANGED <<arg, tag, mod>>
    /\ last' = "new"
    /\ UNCHANGED <<ctlVars, infVars, guiVars>>

\* raw = read(...); CmdPacket(-1, -1, list(raw)): any bytes may arrive.  The
\* new object does not depend on the one it replaces, so it is built from the
\* initial state only.
NewInboundRaw ==
    /\ tag = "none"
    /\ arg = NoArg
    /\ \E r0 \in RawInputs :
        LET r == Construct(-1, -1, r0)
        IN  /\ pkt' = r.pkt
            /\ buf' = r.raw
            /\ res' = Outcome(r)
    /\ origin' = "inbound"
    /\ arg' = NoArg
    /\ tag' = "raw"
    /\ mod' = NoMod
    /\ last' = "new"
    /\ UNCHANGED <<ctlVars, infVars, guiVars>>

\* ---------------------------------------------------------- InfoPacket
\* get_bit
GetBit(value, bit) == (value \div (2 ^ bit)) % 2

\* the lowest first payload byte InfoPacket accepts (0x30)
VersionBase == 48

\* the decimal digits as characters
DigitChars == <<"0", "1", "2", "3", "4", "5", "6", "7", "8", "9">>

RECURSIVE DecText(_)
\* the decimal numeral of n >= 0, a sequence of characters
DecText(n) ==
    IF n < 10 THEN <<DigitChars[n + 1]>>
    ELSE DecText(n \div 10) \o <<DigitChars[(n % 10) + 1]>>

\* f"V{version:.1f}" for version = tenths / 10: the value 1.0 + version_e / 10.0
\* lies within a rounding error of a whole number of tenths, so one decimal
\* place prints exactly that number of tenths
FormatVersion(tenths) ==
    <<"V">> \o DecText(tenths \div 10) \o <<".", DigitChars[(tenths % 10) + 1]>>

\* InfoPacket.__init__ ending in an exception
InfoErr(e) ==
    [err |-> e, CHIP_VERSION |-> <<>>, IS_CONNECTED |-> FALSE,
     NUM_LOCK |-> FALSE, CAPS_LOCK |-> FALSE, SCROLL_LOCK |-> FALSE]

\* InfoPacket.__init__ dividing version_e by ten in integers
InfoPacketIntDiv(data) ==
    IF ~InRange(data, 0) THEN InfoErr("IndexError")
    ELSE IF At(data, 0) < VersionBase THEN InfoErr("ValueError")
    ELSE IF ~InRange(data, 1) \/ ~InRange(data, 2) THEN InfoErr("IndexError")
    ELSE [err |-> "none",
          CHIP_VERSION |-> FormatVersion(10 * (1 + (At(data, 0) - VersionBase) \div 10)),
          IS_CONNECTED |-> At(data, 1) # 0,
          NUM_LOCK |-> GetBit(At(data, 2), 0) = 1,
          CAPS_LOCK |-> GetBit(At(data, 2), 1) = 1,
          SCROLL_LOCK |-> GetBit(At(data, 2), 2) = 1]

\* InfoPacket.__init__: data[0], data[1] and data[2] are read in this order
\* and each raises IndexError when the list is too short; version is
\* 1.0 + version_e / 10.0, that is 10 + version_e tenths
InfoPacket(data) ==
    IF ~InRange(data, 0) THEN InfoErr("IndexError")
    ELSE IF At(data, 0) < VersionBase THEN InfoErr("ValueError")
    ELSE IF ~InRange(data, 1) \/ ~InRange(data, 2) THEN InfoErr("IndexError")
    ELSE [err |-> "none",
          CHIP_VERSION |-> FormatVersion(10 + (At(data, 0) - VersionBase)),
          IS_CONNECTED |-> At(data, 1) # 0,
          NUM_LOCK |-> GetBit(At(data, 2), 0) = 1,
          CAPS_LOCK |-> GetBit(At(data, 2), 1) = 1,
          SCROLL_LOCK |-> GetBit(At(data, 2), 2) = 1]

\* longest argument list given to InfoPacket
MaxInfoData == 4

\* the bytes of those lists: around 0x30, 0x3A (ten tenths above 1.0), the
\* single bits of the lock byte and bytes with the other bits set
InfoBytes == {0, 1, 2, 4, 8, 47, 48, 58, 255}

InfoData == SeqsUpTo(InfoBytes, MaxInfoData)

\* no InfoPacket has been made
NoInfo == [data |-> <<>>, info |-> InfoErr("none")]

InfInit == inf = NoInfo

\* InfoPacket(data) on any list.  The object does not depend on an earlier
\* one, so it is made from the initial state only.
MakeInfo ==
    /\ inf = NoInfo
    /\ \E d \in InfoData : inf' = [data |-> d, info |-> InfoPacket(d)]
    /\ UNCHANGED <<codecVars, ctlVars, guiVars>>

\* -------------------------------------------------------------- NanoKVM
SEND_KB_GENERAL_DATA == 2

\* the size get_info passes to serial_port.read
ReadMax == 14

\* serial_port.read(14): at most 14 of the bytes the line holds
Read14(pending) == Slice(pending, 0, ReadMax)

\* NanoKVM.get_info after the read: a first inbound packet is built and
\* decoded again (the return value is only printed), a second inbound packet
\* is built and InfoPacket is made of its DATA
GetInfoParse(raw) ==
    LET first == Construct(-1, -1, raw)
        ret == Decode(first.pkt, raw)
        rsp == Construct(-1, -1, raw)
    IN  IF first.raised \/ ret.raised \/ rsp.raised THEN InfoErr("IndexError")
        ELSE InfoPacket(rsp.pkt.DATA)

\* the request frame get_info writes
GetInfoFrame(a) == Encode(Construct(a, GET_INFO, <<>>).pkt)

\* NanoKVM.send_hid_report: the frame written for a report
HidReportFrame(a, data) ==
    Encode(Construct(a, SEND_KB_GENERAL_DATA, Slice(data, 0, 8)).pkt)

\* NanoKVM.send_keyboard_data with the usage code in the first key slot of a
\* boot keyboard report
KeyboardFrameSlot2(a, modifier, key) ==
    HidReportFrame(a, <<modifier, 0, key, 0, 0, 0, 0, 0>>)

\* NanoKVM.send_keyboard_data: the frame written
KeyboardFrame(a, modifier, key) ==
    HidReportFrame(a, <<modifier, 0, 0, 0, key, 0, 0, 0>>)

SEND_MS_ABS_DATA == 4

SEND_MS_REL_DATA == 5

\* int_to_byte
IntToByte(value) == value % 256

\* int_to_little_endian_list storing the high byte first
IntToBigEndianList(value, length) ==
    [i \in 1..length |-> (value \div (2 ^ (8 * (length - i)))) % 256]

\* int_to_little_endian_list
IntToLittleEndianList(value, length) ==
    [i \in 1..length |-> (value \div (2 ^ (8 * (i - 1)))) % 256]

\* the number of steps send_mouse_absolute_data scales a surface to
AbsRange == 4096

\* x_abs scaled by one step less than the range
MouseAbsCoord4095(pos, size) ==
    IF size = 0 THEN 0 ELSE (pos * (AbsRange - 1)) \div size

\* x_abs, y_abs of send_mouse_absolute_data: a coordinate scaled to the
\* range, 0 on a surface without extent
MouseAbsCoord(pos, size) ==
    IF size = 0 THEN 0 ELSE (pos * AbsRange) \div size

\* send_mouse_absolute_data with the coordinates stored high byte first
MouseAbsDataBigEndian(key, width, height, x, y, scroll) ==
    <<2, key>> \o IntToBigEndianList(MouseAbsCoord(x, width), 2)
               \o IntToBigEndianList(MouseAbsCoord(y, height), 2) \o <<scroll>>

\* send_mouse_absolute_data: the payload
MouseAbsData(key, width, height, x, y, scroll) ==
    <<2, key>> \o IntToLittleEndianList(MouseAbsCoord(x, width), 2)
               \o IntToLittleEndianList(MouseAbsCoord(y, height), 2) \o <<scroll>>

\* send_mouse_absolute_data: the frame built
MouseAbsFrame(a, key, width, height, x, y, scroll) ==
    Encode(Construct(a, SEND_MS_ABS_DATA,
                     MouseAbsData(key, width, height, x, y, scroll)).pkt)

\* send_mouse_relative_data: the frame built; scroll goes in as given
MouseRelFrame(a, key, x, y, scroll) ==
    Encode(Construct(a, SEND_MS_REL_DATA,
                     <<1, key, IntToByte(x), IntToByte(y), scroll>>).pkt)

\* bytes(pkt) accepts the list: every element is in range(0, 256)
BytesOk(frame) == \A i \in 1..Len(frame) : frame[i] \in 0..255

\* ------------------------------------------------- bounds of the controller
\* threads that call the controller
NumThreads == 2
\* calls started in one run
MaxCalls == 3
\* longest payload of a GET_INFO response the line delivers
MaxInfoLen == 3
\* longest report handed to send_hid_report
MaxReport == 9

Threads == 1..NumThreads

\* modifier bytes and usage codes of the keyboard reports sent
ModVals == {0, 2, 255}
KeyVals == {0, 4, 255}

\* the reports handed to send_hid_report: n bytes that all differ, from b + 1 on
Reports == {[i \in 1..n |-> (b + i) % 256] : n \in 0..MaxReport, b \in {0, 250}}

\* the arguments of send_mouse_relative_data: buttons in 0..255, movements and
\* scroll in -128..127
RelArgs ==
    [key : {0, 255}, x : {-128, -1, 0, 127}, y : {-128, 5}, scroll : {-128, -1, 0, 1, 127}]

\* the arguments of send_mouse_absolute_data: buttons and scroll in 0..255,
\* surfaces with and without extent, positions inside, on the far edge of and
\* beyond the surface
AbsArgs ==
    [key : {0, 255}, width : {0, 3, 1920}, height : {0, 1080},
     x : {0, 2, 960, 1919, 1920, 40000}, y : {0, 540, 1079, 1080}, scroll : {0, 255}]

\* the arguments of the runs with several threads
CtlReports == {<<1, 2, 3>>}

CtlRelArgs == [key : {0}, x : {-1}, y : {1}, scroll : {0, -1}]

CtlAbsArgs == [key : {0}, width : {1920}, height : {1080}, x : {960}, y : {540}, scroll : {0}]

\* payload bytes of the responses: around 0x30, and the lock bits
InfoVals == {0, 1, 7, 47, 48, 49}

InfoPayloads == SeqsUpTo(InfoVals, MaxInfoLen)

InfoFrames == {Encode(Save(0, GET_INFO, p)) : p \in InfoPayloads}

\* what the line can hold for one response frame: the frame, each strict
\* prefix of it, the frame with a wrong checksum, the frame behind six bytes
\* of noise (read(14) then cuts a nine-byte frame short)
Deliveries(f) ==
    {f, [f EXCEPT ![Len(f)] = (@ + 1) % 256], <<0, 0, 0, 0, 0, 0>> \o f}
        \cup {Slice(f, 0, n) : n \in 0..(Len(f) - 1)}

InfoResponses == UNION {Deliveries(f) : f \in InfoFrames} \cup {<<0, 0>>}

\* the responses of the runs with several threads: a timeout, a good response,
\* a response with a version byte below 0x30
CtlResponses ==
    {<<>>, Encode(Save(0, GET_INFO, <<48, 1, 0>>)), Encode(Save(0, GET_INFO, <<47, 1, 0>>))}

\* the responses of the runs with one caller: those, and every delivery of
\* the good response
OneResponses == CtlResponses \cup Deliveries(Encode(Save(0, GET_INFO, <<48, 1, 0>>)))

NoRead == [t |-> 0, raw |-> <<>>, info |-> InfoErr("none")]

\* no call has been started
NoOp == [t |-> 0, op |-> "none", args |-> [data |-> <<>>]]

\* NanoKVM.__init__ with the default addr; no thread is in a call
CtlInit ==
    /\ addr = 0
    /\ write_lock = 0
    /\ tpc = [t \in Threads |-> "idle"]
    /\ top = [t \in Threads |-> "none"]
    /\ tres = [t \in Threads |-> "none"]
    /\ port = <<>>
    /\ wire = <<>>
    /\ rd = NoRead
    /\ ncalls = 0
    /\ call = NoOp
    /\ nw = [t \in Threads |-> 0]
    /\ nr = [t \in Threads |-> 0]

\* ------------------------------------------------------ KeyCaptureWindow
\* the Qt keys pressed: three keys of qt_to_hid_int_map and one it lacks
QtKeys == {"Key_A", "Key_Shift", "Key_Slash", "Key_F13"}

\* the modifiers an event can report
QtMods == SUBSET {"Shift", "Control", "Alt"}

\* qt_to_hid_int_map.get(key): the usage code, -1 for None.  Key_Slash is
\* listed twice and the later entry (0x54) is the one the dict keeps.
QtToHid(key) ==
    CASE key = "Key_A" -> 4
      [] key = "Key_Shift" -> 225
      [] key = "Key_Slash" -> 84
      [] OTHER -> -1

\* the modifier byte keyPressEvent builds of event.modifiers()
ModByte(mods) ==
    (IF "Shift" \in mods THEN 2 ELSE 0) + (IF "Control" \in mods THEN 1 ELSE 0)
        + (IF "Alt" \in mods THEN 4 ELSE 0)

\* keyPressEvent: the frames it has the device write
KeyPressWrites(a, key, mods, auto) ==
    LET hid_code == QtToHid(key)
    IN  IF auto THEN <<>>
        ELSE IF hid_code # -1 /\ hid_code # 0
             THEN <<KeyboardFrame(a, ModByte(mods), hid_code)>>
             ELSE <<>>

\* keyReleaseEvent: the frames it has the device write; the event is not looked at
KeyReleaseWrites(a, key, mods, auto) == <<KeyboardFrame(a, 0, 0)>>

NoEvent == [kind |-> "none", key |-> "none", mods |-> {}, auto |-> FALSE]

\* the window is shown, no key is down
GuiInit ==
    /\ held = {}
    /\ ev = NoEvent
    /\ evw = <<>>

\* Qt delivers a key press: the user presses a key that was up, or a held key
\* repeats (isAutoRepeat)
KeyPressEvent ==
    /\ \E key \in QtKeys, mods \in QtMods, auto \in BOOLEAN :
        /\ auto <=> key \in held
        /\ held' = held \cup {key}
        /\ ev' = [kind |-> "press", key |-> key, mods |-> mods, auto |-> auto]
        /\ evw' = KeyPressWrites(addr, key, mods, auto)
    /\ UNCHANGED <<codecVars, ctlVars, infVars>>

\* Qt delivers a key release: the user lets a held key go, or a held key
\* repeats (isAutoRepeat, the key stays down)
KeyReleaseEvent ==
    /\ \E key \in held, mods \in QtMods, auto \in BOOLEAN :
        /\ held' = IF auto THEN held ELSE held \ {key}
        /\ ev' = [kind |-> "release", key |-> key, mods |-> mods, auto |-> auto]
        /\ evw' = KeyReleaseWrites(addr, key, mods, auto)
    /\ UNCHANGED <<codecVars, ctlVars, infVars>>

Init == CodecInit /\ CtlInit /\ InfInit /\ GuiInit

\* get_info up to and including serial_port.write: the lock is not taken
GetInfoWrite(t) ==
    /\ tpc[t] = "idle"
    /\ ncalls < MaxCalls
    /\ ncalls' = ncalls + 1
    /\ call' = [t |-> t, op |-> "get_info", args |-> [data |-> <<>>]]
    /\ wire' = GetInfoFrame(addr)
    /\ port' = Append(port, [t |-> t, k |-> "w", op |-> "get_info"])
    /\ nw' = [nw EXCEPT ![t] = @ + 1]
    /\ tpc' = [tpc EXCEPT ![t] = "gi_read"]
    /\ top' = [top EXCEPT ![t] = "get_info"]
    /\ UNCHANGED <<addr, write_lock, tres, rd, nr>>
    /\ UNCHANGED <<codecVars, infVars, guiVars>>

\* get_info from serial_port.read(14) to its return or its exception
GetInfoRead(t, responses) ==
    /\ tpc[t] = "gi_read"
    /\ \E pending \in responses :
        LET raw == Read14(pending)
            info == GetInfoParse(raw)
        IN  /\ rd' = [t |-> t, raw |-> raw, info |-> info]
            /\ tres' = [tres EXCEPT ![t] = IF info.err = "none" THEN "ok" ELSE info.err]
    /\ port' = Append(port, [t |-> t, k |-> "r", op |-> "get_info"])
    /\ nr' = [nr EXCEPT ![t] = @ + 1]
    /\ tpc' = [tpc EXCEPT ![t] = "done"]
    /\ UNCHANGED <<addr, write_lock, top, wire, ncalls, call, nw>>
    /\ UNCHANGED <<codecVars, infVars, guiVars>>

\* a send_* call of thread t: the frame is built, bytes(pkt) is made of it and
\* written once; bytes() raises ValueError on an element outside 0..255 and
\* then nothing is written.  The lock is not taken.
Send(t, op, args, frame) ==
    /\ tpc[t] = "idle"
    /\ ncalls < MaxCalls
    /\ ncalls' = ncalls + 1
    /\ call' = [t |-> t, op |-> op, args |-> args]
    /\ IF BytesOk(frame)
       THEN /\ wire' = frame
            /\ port' = Append(port, [t |-> t, k |-> "w", op |-> op])
            /\ nw' = [nw EXCEPT ![t] = @ + 1]
            /\ tres' = [tres EXCEPT ![t] = "ok"]
       ELSE /\ UNCHANGED <<wire, port, nw>>
            /\ tres' = [tres EXCEPT ![t] = "ValueError"]
    /\ tpc' = [tpc EXCEPT ![t] = "done"]
    /\ top' = [top EXCEPT ![t] = op]
    /\ UNCHANGED <<addr, write_lock, rd, nr>>
    /\ UNCHANGED <<codecVars, infVars, guiVars>>

\* send_hid_report
SendHidReport(t, reports) ==
    \E d \in reports :
        Send(t, "send_hid_report", [data |-> d], HidReportFrame(addr, d))

\* send_keyboard_data, through send_hid_report
SendKeyboard(t) ==
    \E m \in ModVals, key \in KeyVals :
        Send(t, "send_keyboard_data", [modifier |-> m, key |-> key],
             KeyboardFrame(addr, m, key))

\* send_mouse_relative_data
SendMouseRel(t, argsets) ==
    \E a \in argsets :
        Send(t, "send_mouse_relative_data", a,
             MouseRelFrame(addr, a.key, a.x, a.y, a.scroll))

\* send_mouse_absolute_data
SendMouseAbs(t, argsets) ==
    \E a \in argsets :
        Send(t, "send_mouse_absolute_data", a,
             MouseAbsFrame(addr, a.key, a.width, a.height, a.x, a.y, a.scroll))

\* the call returns (or its exception reaches the caller)
Return(t) ==
    /\ tpc[t] = "done"
    /\ tpc' = [tpc EXCEPT ![t] = "idle"]
    /\ top' = [top EXCEPT ![t] = "none"]
    /\ tres' = [tres EXCEPT ![t] = "none"]
    /\ rd' = IF rd.t = t THEN NoRead ELSE rd
    /\ nw' = [nw EXCEPT ![t] = 0]
    /\ nr' = [nr EXCEPT ![t] = 0]
    /\ UNCHANGED <<addr, write_lock, port, wire, ncalls, call>>
    /\ UNCHANGED <<codecVars, infVars, guiVars>>

Next ==
    \/ NewOutbound
    \/ EncodeFrame
    \/ FlipBit
    \/ Truncate
    \/ Prepend
    \/ PrependNoisy
    \/ Concat
    \/ Resend
    \/ DecodeCall
    \/ NewInbound
    \/ NewInboundRaw

Spec == Init /\ [][Next]_vars

\* several threads call one controller
NextCtl ==
    \/ \E t \in Threads : GetInfoWrite(t)
    \/ \E t \in Threads : GetInfoRead(t, CtlResponses)
    \/ \E t \in Threads : SendKeyboard(t)
    \/ \E t \in Threads : SendHidReport(t, CtlReports)
    \/ \E t \in Threads : SendMouseRel(t, CtlRelArgs)
    \/ \E t \in Threads : SendMouseAbs(t, CtlAbsArgs)
    \/ \E t \in Threads : Return(t)

SpecCtl == Init /\ [][NextCtl]_vars

\* one caller, every response the line can deliver
NextInfo ==
    \/ GetInfoWrite(1)
    \/ GetInfoRead(1, InfoResponses)
    \/ SendKeyboard(1)
    \/ Return(1)

SpecInfo == Init /\ [][NextInfo]_vars

\* the first call on a new controller, with any arguments
NextSend ==
    \/ SendKeyboard(1)
    \/ SendHidReport(1, Reports)
    \/ SendMouseRel(1, RelArgs)
    \/ SendMouseAbs(1, AbsArgs)

SpecSend == Init /\ [][NextSend]_vars

\* InfoPacket made of any list
NextInf == MakeInfo

SpecInf == Init /\ [][NextInf]_vars

\* the key events of the window
NextGui ==
    \/ KeyPressEvent
    \/ KeyReleaseEvent

SpecGui == Init /\ [][NextGui]_vars

\* ------------------------------------------------------ claims on the codec
\* a decode call (or an inbound construction) has been made on the bytes in buf
Decoded == res.out \notin {"saved", "none"}

\* the object's fields are those the frame in buf was built from
FieldsAreArg ==
    /\ pkt.ADDR = arg.addr
    /\ pkt.CMD = arg.cmd
    /\ pkt.LEN = Len(arg.data)
    /\ pkt.DATA = arg.data

\* C1: decoding the bytes encode() produced for (address, command, payload)
\* returns 0 and yields ADDR = address, CMD = command, LEN = len(payload),
\* DATA = payload and SUM = the checksum byte encode emitted, also when the
\* payload itself holds the pair 0x57, 0xAB.
C1_RoundTrip ==
    (tag = "frame" /\ Decoded) =>
        /\ res.ret = 0
        /\ ~res.raised
        /\ FieldsAreArg
        /\ pkt.SUM = buf[Len(buf)]

\* C1 witness: a frame whose payload holds the header pair has been decoded
C1_Witness ==
    /\ tag = "frame"
    /\ Decoded
    /\ HasHead(arg.data)
    /\ res.ret = 0

\* C2: encode() returns exactly 6 + len(payload) bytes: 0x57, 0xAB, address,
\* command, len(payload), the payload in order, then one checksum byte equal
\* to (0x57 + 0xAB + address + command + len(payload) + sum(payload)) mod 256,
\* which is the sum of all preceding bytes of the frame mod 256.
C2_WireLayout ==
    (tag = "frame") =>
        /\ Len(buf) = 6 + Len(arg.data)
        /\ SubSeq(buf, 1, 5) = <<87, 171, arg.addr, arg.cmd, Len(arg.data)>>
        /\ SubSeq(buf, 6, Len(buf) - 1) = arg.data
        /\ buf[Len(buf)] =
              (87 + 171 + arg.addr + arg.cmd + Len(arg.data) + SeqSum(arg.data)) % 256
        /\ buf[Len(buf)] = SeqSum(SubSeq(buf, 1, Len(buf) - 1)) % 256

\* C2 witness: a frame with a two-byte payload whose byte sum wraps past 255
C2_Witness ==
    /\ tag = "frame"
    /\ Len(arg.data) >= 2
    /\ SeqSum(SubSeq(buf, 1, Len(buf) - 1)) > 255 + 256

\* C3 as claimed: address 0x00, command 0x01 (GET_INFO) and an empty payload
\* encode to exactly 0x57, 0xAB, 0x00, 0x01, 0x00, 0x58.
C3_GetInfoVector ==
    (tag = "frame" /\ arg = [addr |-> 0, cmd |-> 1, data |-> <<>>]) =>
        buf = <<87, 171, 0, 1, 0, 88>>

\* C3 as amended: address 0x00, command 0x01 (GET_INFO) and an empty payload
\* encode to exactly 0x57, 0xAB, 0x00, 0x01, 0x00, 0x03: the checksum byte of
\* the GET_INFO request frame is 0x03 (0x57 + 0xAB + 0 + 1 + 0 = 0x103).
C3_GetInfoVectorSum03 ==
    (tag = "frame" /\ arg = [addr |-> 0, cmd |-> 1, data |-> <<>>]) =>
        buf = <<87, 171, 0, 1, 0, 3>>

\* C3 witness: the GET_INFO request frame has been encoded
C3_Witness ==
    /\ tag = "frame"
    /\ arg = [addr |-> 0, cmd |-> 1, data |-> <<>>]
    /\ Len(buf) = 6

\* C4 as claimed: decode fails on every frame that differs from a valid frame
\* by one inverted bit, whichever byte the bit is in.
C4_AnyFlipDetected ==
    (tag = "flip" /\ Decoded) => res.ret = -1

\* C4 as amended: decode fails (returns -1, raises nothing) on every frame that
\* differs from a valid frame by one inverted bit in the address, command,
\* payload or checksum byte; a bit inverted in a header byte or in the length
\* byte can go undetected.
C4_FlipInSummedFieldDetected ==
    (tag = "flip" /\ Decoded /\ mod.pos \notin {0, 1, 4}) =>
        /\ res.ret = -1
        /\ ~res.raised

\* C4 witness: a frame with a bit inverted in its payload has been rejected
C4_Witness ==
    /\ tag = "flip"
    /\ Decoded
    /\ mod.pos = 5
    /\ Len(arg.data) >= 1
    /\ res.ret = -1

\* C5 as claimed: decode of every strict prefix of a valid frame fails at one
\* of the two length checks, never succeeds and never raises.
C5_PrefixTruncated ==
    (tag = "prefix" /\ Decoded) =>
        /\ res.ret = -1
        /\ ~res.raised
        /\ res.out \in {"len error1", "len error2"}

\* C5 as amended: decode of every strict prefix of a valid frame fails without
\* raising; a prefix of 2 bytes or more fails at one of the two length checks
\* and a prefix of 0 or 1 bytes fails at the header scan.
C5_PrefixRejected ==
    (tag = "prefix" /\ Decoded) =>
        /\ res.ret = -1
        /\ ~res.raised
        /\ (mod.cut >= 2 => res.out \in {"len error1", "len error2"})
        /\ (mod.cut < 2 => res.out = "cannot find HEAD")

\* C5 witness: a prefix holding the whole frame but its last byte has been
\* rejected by the second length check
C5_Witness ==
    /\ tag = "prefix"
    /\ Decoded
    /\ mod.cut = 5 + Len(arg.data)
    /\ res.out = "len error2"

\* C6: for bytes G without the pair 0x57, 0xAB (G may end in 0x57) in front of
\* a valid frame F, decode(G ++ F) returns 0 and yields F's address, command
\* and payload.
C6_GarbageSkipped ==
    (tag = "garbage" /\ Decoded) =>
        /\ res.ret = 0
        /\ ~res.raised
        /\ FieldsAreArg

\* C6 witness: a frame behind garbage that ends in 0x57 has been decoded
C6_Witness ==
    /\ tag = "garbage"
    /\ Decoded
    /\ Len(mod.pre) > 0
    /\ mod.pre[Len(mod.pre)] = 87
    /\ res.ret = 0

\* C9 as claimed: whenever a decode call has returned failure the object's
\* fields are at the zero state (ADDR = 0, CMD = 0, LEN = 0, DATA empty,
\* SUM = 0), also after an earlier successful decode or an outbound
\* construction.
C9_FailedDecodeZeroes ==
    (Decoded /\ res.ret = -1) => pkt = ZeroPkt

\* C9 as amended: a decode call that returns failure leaves every field of the
\* object as it was before the call, so the fields of an earlier successful
\* decode or of the outbound construction stay visible; the fields are at the
\* zero state after a failure when the object was constructed inbound from the
\* failing bytes.
C9_FailedDecodeKeepsFields ==
    /\ [][(last' = "decode" /\ res'.ret = -1) => pkt' = pkt]_vars
    /\ []((last = "new" /\ origin = "inbound" /\ res.ret = -1) => pkt = ZeroPkt)

\* C9 witness: a decode call has failed on an outbound object, whose fields
\* are still those it was built with
C9_Witness ==
    /\ origin = "outbound"
    /\ last = "decode"
    /\ Decoded
    /\ res.ret = -1
    /\ FieldsAreArg
    /\ pkt # ZeroPkt

\* C10: for every byte sequence (empty, one byte, a header with nothing after
\* it, a declared length larger than the bytes that remain, ...) decode
\* returns 0 or -1 without raising, and the list passed in is unchanged.
C10_DecodeTotal ==
    /\ [](Decoded => (~res.raised /\ res.ret \in {0, -1}))
    /\ [][(tag # "none" /\ (last' = "decode" \/ (last' = "new" /\ origin' = "inbound")))
             => buf' = buf]_vars

\* C10 witness: raw bytes whose declared length exceeds what remains have been
\* rejected by a decode call
C10_Witness ==
    /\ tag = "raw"
    /\ Decoded
    /\ Len(buf) >= 6
    /\ res.out = "len error2"
    /\ ~res.raised

\* -------------------------------------------------- claims on the controller
\* C7: the exchanges of concurrent callers are serialized: at most one
\* get_info write+read exchange is in flight at any time, and no other
\* thread's write or read on the serial port comes between a get_info call's
\* write and that same call's read.
C7_ExchangesSerialized ==
    /\ Cardinality({t \in Threads : tpc[t] = "gi_read"}) <= 1
    /\ \A i \in 1..(Len(port) - 1) :
          (port[i].k = "w" /\ port[i].op = "get_info") =>
              (port[i + 1].t = port[i].t /\ port[i + 1].k = "r")

\* the framing error a failed decode stands for
FramingError(out) ==
    CASE out = "cannot find HEAD" -> "HeaderNotFound"
      [] out \in {"len error1", "len error2", "len error3"} -> "Truncated"
      [] out = "checksum" -> "ChecksumMismatch"
      [] OTHER -> "IndexError"

\* C8: whatever bytes the read returns, get_info returns a DeviceInfo only
\* when they decode to a frame with at least 3 payload bytes and a first
\* payload byte >= 0x30; otherwise it ends in an error that is the framing
\* error of that response (no header, truncated, checksum mismatch) or the
\* version error.
C8_ErrorsPropagate ==
    (rd.t # 0) =>
        LET d == Decode(ZeroPkt, rd.raw)
            good == /\ d.ret = 0
                    /\ Len(d.pkt.DATA) >= 3
                    /\ d.pkt.DATA[1] >= 48
        IN  /\ rd.info.err = "none" <=> good
            /\ d.ret = -1 => rd.info.err = FramingError(d.out)
            /\ (d.ret = 0 /\ Len(d.pkt.DATA) >= 3 /\ d.pkt.DATA[1] < 48) =>
                   rd.info.err = "ValueError"
            /\ ~good => rd.info.err \in
                   {"HeaderNotFound", "Truncated", "ChecksumMismatch", "ValueError"}

\* ------------------------------------------------- claims on the InfoPacket
\* the digit a character stands for
DigitOf(c) == CHOOSE d \in 0..9 : DigitChars[d + 1] = c

RECURSIVE DecValue(_)
\* the number a sequence of digit characters writes
DecValue(text) ==
    IF text = <<>> THEN 0
    ELSE 10 * DecValue(SubSeq(text, 1, Len(text) - 1)) + DigitOf(text[Len(text)])

\* the version a text "V<digits>.<digit>" names, in tenths
VersionTenths(text) ==
    10 * DecValue(SubSeq(text, 2, Len(text) - 2)) + DigitOf(text[Len(text)])

\* C11: of a payload of at least three bytes InfoPacket fails with the version
\* error exactly when payload[0] < 0x30; otherwise IS_CONNECTED is
\* payload[1] # 0, NUM_LOCK, CAPS_LOCK and SCROLL_LOCK are bits 0, 1 and 2 of
\* payload[2], whatever its other bits and the later bytes are, and
\* CHIP_VERSION names 10 + (payload[0] - 0x30) tenths; [0x30, 0x01, 0x00]
\* gives V1.0, connected, no lock set.
C11_InfoFields ==
    Len(inf.data) >= 3 =>
        LET p0 == inf.data[1]
            p1 == inf.data[2]
            p2 == inf.data[3]
            i == inf.info
        IN  /\ (i.err = "ValueError") <=> (p0 < 48)
            /\ p0 >= 48 =>
                /\ i.err = "none"
                /\ i.IS_CONNECTED <=> (p1 # 0)
                /\ i.NUM_LOCK <=> (p2 % 2 = 1)
                /\ i.CAPS_LOCK <=> ((p2 \div 2) % 2 = 1)
                /\ i.SCROLL_LOCK <=> ((p2 \div 4) % 2 = 1)
                /\ i.CHIP_VERSION[1] = "V"
                /\ i.CHIP_VERSION[Len(i.CHIP_VERSION) - 1] = "."
                /\ VersionTenths(i.CHIP_VERSION) = 10 + (p0 - 48)
            /\ inf.data = <<48, 1, 0>> =>
                i = [err |-> "none", CHIP_VERSION |-> <<"V", "1", ".", "0">>,
                     IS_CONNECTED |-> TRUE, NUM_LOCK |-> FALSE,
                     CAPS_LOCK |-> FALSE, SCROLL_LOCK |-> FALSE]

\* a four-byte payload with version byte 0x3A and only bit 3 of the lock byte
\* set was parsed: V2.0, no lock
C11_Witness ==
    /\ inf.data = <<58, 255, 8, 255>>
    /\ inf.info.CHIP_VERSION = <<"V", "2", ".", "0">>
    /\ inf.info.IS_CONNECTED
    /\ ~inf.info.NUM_LOCK /\ ~inf.info.CAPS_LOCK /\ ~inf.info.SCROLL_LOCK

\* -------------------------------------------- claims on the send operations
\* the call made was op and it wrote its frame
Wrote(op) == call.op = op /\ tres[call.t] = "ok" /\ nw[call.t] = 1

\* C12: for buttons and scroll in 0..255 and width, height, x, y >= 0,
\* send_mouse_absolute_data writes one frame with command 0x04 and the payload
\* [0x02, buttons, x_abs mod 256, (x_abs div 256) mod 256, y_abs mod 256,
\* (y_abs div 256) mod 256, scroll], x_abs = (x * 4096) div width or 0 when
\* width = 0 (the same for y and height); width 1920, height 1080, x 960,
\* y 540 give 2048 and 2048; a dimension of 0 raises no division error.
C12_AbsolutePayload ==
    call.op = "send_mouse_absolute_data" =>
        LET a == call.args
            xa == IF a.width = 0 THEN 0 ELSE (a.x * 4096) \div a.width
            ya == IF a.height = 0 THEN 0 ELSE (a.y * 4096) \div a.height
        IN  /\ Wrote("send_mouse_absolute_data")
            /\ Len(wire) = 13
            /\ wire[4] = 4
            /\ wire[5] = 7
            /\ SubSeq(wire, 6, 12) =
                   <<2, a.key, xa % 256, (xa \div 256) % 256,
                     ya % 256, (ya \div 256) % 256, a.scroll>>
            /\ (a.width = 1920 /\ a.height = 1080 /\ a.x = 960 /\ a.y = 540) =>
                   (xa = 2048 /\ ya = 2048 /\ SubSeq(wire, 8, 11) = <<0, 8, 0, 8>>)

\* the middle of a surface of width 0 and height 1080 was sent: x_abs is 0,
\* y_abs is 2048
C12_Witness ==
    /\ Wrote("send_mouse_absolute_data")
    /\ call.args = [key |-> 255, width |-> 0, height |-> 1080,
                    x |-> 960, y |-> 540, scroll |-> 255]
    /\ SubSeq(wire, 6, 12) = <<2, 255, 0, 0, 0, 8, 255>>

\* the coordinates the written frame carries, read back low byte first
WireX == wire[8] + 256 * wire[9]

WireY == wire[10] + 256 * wire[11]

\* C13: for 0 <= x <= width and 0 <= y <= height the coordinates put on the
\* wire satisfy 0 <= x_abs <= 4095 and 0 <= y_abs <= 4095, and the two bytes
\* of each coordinate read back as the coordinate.
C13_AbsInRange ==
    (/\ Wrote("send_mouse_absolute_data")
     /\ call.args.x <= call.args.width
     /\ call.args.y <= call.args.height) =>
        /\ WireX \in 0..4095
        /\ WireY \in 0..4095
        /\ WireX = MouseAbsCoord(call.args.x, call.args.width)
        /\ WireY = MouseAbsCoord(call.args.y, call.args.height)

\* C13, amended: on each axis a position inside the surface (0 <= x < width)
\* is sent as 0 <= x_abs <= 4095 and the two bytes read back as x_abs; the
\* far edge x = width > 0 is sent as 4096, one above that range, and its two
\* bytes still read back as 4096.
C13_AbsInRangeInside ==
    Wrote("send_mouse_absolute_data") =>
        LET a == call.args
        IN  /\ a.x < a.width =>
                /\ WireX \in 0..4095
                /\ WireX = (a.x * 4096) \div a.width
            /\ a.y < a.height =>
                /\ WireY \in 0..4095
                /\ WireY = (a.y * 4096) \div a.height
            /\ (a.x = a.width /\ a.width > 0) => WireX = 4096
            /\ (a.y = a.height /\ a.height > 0) => WireY = 4096

\* the last position inside a 1920 x 1080 surface was sent: 4093 and 4092
C13_Witness ==
    /\ Wrote("send_mouse_absolute_data")
    /\ call.args.width = 1920 /\ call.args.x = 1919
    /\ call.args.height = 1080 /\ call.args.y = 1079
    /\ SubSeq(wire, 8, 11) = <<253, 15, 252, 15>>

\* the send_* operations
SendOps ==
    {"send_hid_report", "send_keyboard_data",
     "send_mouse_relative_data", "send_mouse_absolute_data"}

\* C14: each get_info call makes exactly one write on the port and then
\* exactly one read, of at most 14 bytes; each send_keyboard_data,
\* send_hid_report, send_mouse_relative_data and send_mouse_absolute_data call
\* makes exactly one write and no read; however the call ends, no second
\* write or read is made.
C14_OneExchangePerCall ==
    \A t \in Threads :
        /\ nw[t] <= 1 /\ nr[t] <= 1
        /\ tpc[t] = "gi_read" => (nw[t] = 1 /\ nr[t] = 0)
        /\ (tpc[t] = "done" /\ top[t] = "get_info") =>
               /\ nw[t] = 1 /\ nr[t] = 1
               /\ rd.t = t => Len(rd.raw) <= 14
        /\ (tpc[t] = "done" /\ top[t] \in SendOps) => (nw[t] = 1 /\ nr[t] = 0)

\* the command each send_* operation issues
CmdOf(op) ==
    CASE op = "send_mouse_relative_data" -> SEND_MS_REL_DATA
      [] op = "send_mouse_absolute_data" -> SEND_MS_ABS_DATA
      [] OTHER -> SEND_KB_GENERAL_DATA

\* C16: for every send_* operation and every argument in its domain (buttons,
\* modifier and usage in 0..255; dx, dy and scroll of send_mouse_relative_data
\* in -128..127) the operation does not fail before writing, every element of
\* the frame passed to write is in 0..255, and the frame decodes to the
\* command issued.
C16_FramesWellFormed ==
    call.op \in SendOps =>
        /\ Wrote(call.op)
        /\ BytesOk(wire)
        /\ LET d == Decode(ZeroPkt, wire)
           IN  d.ret = 0 /\ d.pkt.CMD = CmdOf(call.op)

\* C15: send_keyboard_data(modifier, usage) writes exactly the frame with the
\* controller's address, command 0x02 and the payload
\* [modifier, 0, 0, 0, usage, 0, 0, 0]; send_hid_report puts the first bytes of
\* the report into the frame and never more than 8 of them, whatever the
\* length of the report.
C15_KeyboardReport ==
    /\ call.op = "send_keyboard_data" =>
        LET m == call.args.modifier
            u == call.args.key
        IN  /\ Wrote("send_keyboard_data")
            /\ wire = <<87, 171, addr, 2, 8, m, 0, 0, 0, u, 0, 0, 0,
                        (87 + 171 + addr + 2 + 8 + m + u) % 256>>
    /\ call.op = "send_hid_report" =>
        LET n == IF Len(call.args.data) < 8 THEN Len(call.args.data) ELSE 8
        IN  /\ Wrote("send_hid_report")
            /\ Len(wire) = 6 + n
            /\ wire[3] = addr /\ wire[4] = 2 /\ wire[5] = n
            /\ SubSeq(wire, 6, 5 + n) = SubSeq(call.args.data, 1, n)

\* Shift + A was sent
C15_Witness ==
    /\ Wrote("send_keyboard_data")
    /\ call.args = [modifier |-> 2, key |-> 4]
    /\ wire = <<87, 171, 0, 2, 8, 2, 0, 0, 0, 4, 0, 0, 0, 18>>

\* ------------------------------------------- claims on frames in a stream
\* the offset of the first header pair in buf
FirstPair == SetMin({i \in 0..(Len(buf) - 2) : buf[i + 1] = 87 /\ buf[i + 2] = 171})

\* the bytes of raw from offset i on start a frame that is whole and whose
\* checksum byte is the sum of the bytes before it
ValidFrameAt(raw, i) ==
    /\ Len(raw) - i >= 6
    /\ Len(raw) - i >= 6 + raw[i + 5]
    /\ SeqSum(SubSeq(raw, i + 1, i + 5 + raw[i + 5])) % 256 = raw[i + 6 + raw[i + 5]]

\* C17: decode locates the frame only at the first occurrence of 0x57, 0xAB:
\* for valid frames F1 and F2, decode(F1 ++ F2) returns 0 and yields F1's
\* fields; and for a valid frame F behind bytes that hold an occurrence of
\* 0x57, 0xAB which does not start a valid frame, decode still recovers F.
C17_FirstHeaderRecovers ==
    /\ (tag = "concat" /\ Decoded) => (res.ret = 0 /\ FieldsAreArg)
    /\ (tag = "noisy" /\ Decoded /\ ~ValidFrameAt(buf, FirstPair)) =>
           (res.ret = 0 /\ FieldsAreArg)

\* C17, amended: decode parses at the first occurrence of 0x57, 0xAB and
\* nowhere else: for valid frames F1 and F2, decode(F1 ++ F2) returns 0 and
\* yields F1's fields; for a valid frame F behind bytes that hold an
\* occurrence of 0x57, 0xAB which does not start a valid frame, decode returns
\* -1 without raising, and a fresh inbound object keeps its zero fields: F is
\* not recovered.
C17_FirstHeaderOnly ==
    /\ (tag = "concat" /\ Decoded) => (res.ret = 0 /\ ~res.raised /\ FieldsAreArg)
    /\ (tag = "noisy" /\ Decoded /\ ~ValidFrameAt(buf, FirstPair)) =>
           /\ res.ret = -1
           /\ ~res.raised
           /\ (last = "new" /\ origin = "inbound") => pkt = ZeroPkt

\* a fresh inbound object was built of a frame behind 0x00, 0x57, 0xAB: the
\* construction failed and the object holds no field of the frame
C17_Witness ==
    /\ tag = "noisy"
    /\ mod.pre = <<0, 87, 171>>
    /\ arg.data = <<3>>
    /\ buf = mod.pre \o Encode(Save(arg.addr, arg.cmd, arg.data))
    /\ last = "new"
    /\ origin = "inbound"
    /\ res.ret = -1
    /\ pkt = ZeroPkt

\* ---------------------------------------------- claims on the key window
\* C18: an event flagged as auto-repeat, press or release, writes no frame,
\* so no all-zero report is sent while a key is held; a non-repeated key-down
\* of a mapped key writes exactly one keyboard report with its modifier byte
\* and usage code, a key-down of an unmapped key writes nothing, and a real
\* key-up writes exactly one all-zero report.
C18_AutoRepeatSilent ==
    /\ ev.auto => evw = <<>>
    /\ (ev.kind = "press" /\ ~ev.auto /\ QtToHid(ev.key) # -1) =>
           evw = <<KeyboardFrame(addr, ModByte(ev.mods), QtToHid(ev.key))>>
    /\ (ev.kind = "press" /\ ~ev.auto /\ QtToHid(ev.key) = -1) => evw = <<>>
    /\ (ev.kind = "release" /\ ~ev.auto) => evw = <<KeyboardFrame(addr, 0, 0)>>

====
